---- MODULE Spec2Model ----
(***************************************************************************)
(* A model of pylo's logger module (src/src/pylo/logger.py): get_logger,   *)
(* try_create_dir and ASCIIFormatter, together with the parts of the       *)
(* standard logging, os and inspect modules that the module drives         *)
(* (logger registry, level filtering, handler dispatch, makedirs, open).   *)
(*                                                                         *)
(* Representation                                                          *)
(*   - a string that the code only inspects character by character (the    *)
(*     value of LOG_LEVEL, a log message) is a sequence of one-character   *)
(*     strings;                                                            *)
(*   - a logger name is the sequence of its dot-separated components       *)
(*     ("foo.py" is <<"foo", "py">>), the empty name is <<>>;              *)
(*   - a file path is the sequence of its "/"-separated components; a      *)
(*     source-file path ends with a component that is itself a name.       *)
(***************************************************************************)
EXTENDS Integers, Sequences, FiniteSets, TLC

VARIABLES
    environ,     \* os.environ restricted to LOG_LEVEL and LOG_FILE
    loggerDict,  \* logging's registry: logger name -> Logger object
    fs,          \* the file system: [dirs, files], sets of paths
    nextId,      \* allocation counter for object identities
    ret,         \* outcome of the latest get_logger call
    returned,    \* history: [name, id] of every call that returned, in order
    raised,      \* history: names for which a get_logger call raised
    ncalls,      \* number of get_logger calls made
    nenv,        \* number of environment changes made
    lastLog,     \* the latest record logged and what every sink wrote for it
    threads      \* position and locals of each thread inside get_logger

vars == <<environ, loggerDict, fs, nextId, ret, returned, raised, ncalls, nenv,
          lastLog, threads>>

(***************************************************************************)
(* Bounds of the exploration.                                              *)
(***************************************************************************)
MaxCalls == 2
MaxEnvOps == 1
MaxExtra == 1

(***************************************************************************)
(* Severity levels of the logging module.                                  *)
(***************************************************************************)
NOTSET == 0
DEBUG == 10
INFO == 20
WARNING == 30
ERROR == 40
CRITICAL == 50

Severities == {DEBUG, INFO, WARNING, ERROR, CRITICAL}

levelname(levelno) ==
    CASE levelno = DEBUG -> "DEBUG"
      [] levelno = INFO -> "INFO"
      [] levelno = WARNING -> "WARNING"
      [] levelno = ERROR -> "ERROR"
      [] levelno = CRITICAL -> "CRITICAL"
      [] OTHER -> "Level"

(***************************************************************************)
(* Strings as character sequences: str.upper().                            *)
(***************************************************************************)
LowerCase == <<"a", "b", "c", "d", "e", "f", "g", "h", "i", "j", "k", "l", "m",
               "n", "o", "p", "q", "r", "s", "t", "u", "v", "w", "x", "y", "z">>
UpperCase == <<"A", "B", "C", "D", "E", "F", "G", "H", "I", "J", "K", "L", "M",
               "N", "O", "P", "Q", "R", "S", "T", "U", "V", "W", "X", "Y", "Z">>

upper_char(c) ==
    IF \E i \in DOMAIN LowerCase : LowerCase[i] = c
    THEN UpperCase[CHOOSE i \in DOMAIN LowerCase : LowerCase[i] = c]
    ELSE c

upper(s) == [i \in DOMAIN s |-> upper_char(s[i])]

(***************************************************************************)
(* The attributes of the logging module whose names survive upper(): the   *)
(* five level constants, the aliases WARN and FATAL, NOTSET, and the two   *)
(* non-integer attributes BASIC_FORMAT (a str) and _STYLES (a dict).       *)
(***************************************************************************)
IntValue(n) == [t |-> "int", v |-> n]
StrValue == [t |-> "str", v |-> 0]
DictValue == [t |-> "dict", v |-> 0]

logging_attrs ==
    (<<"D", "E", "B", "U", "G">> :> IntValue(DEBUG))
    @@ (<<"I", "N", "F", "O">> :> IntValue(INFO))
    @@ (<<"W", "A", "R", "N", "I", "N", "G">> :> IntValue(WARNING))
    @@ (<<"W", "A", "R", "N">> :> IntValue(WARNING))
    @@ (<<"E", "R", "R", "O", "R">> :> IntValue(ERROR))
    @@ (<<"C", "R", "I", "T", "I", "C", "A", "L">> :> IntValue(CRITICAL))
    @@ (<<"F", "A", "T", "A", "L">> :> IntValue(CRITICAL))
    @@ (<<"N", "O", "T", "S", "E", "T">> :> IntValue(NOTSET))
    @@ (<<"B", "A", "S", "I", "C", "_", "F", "O", "R", "M", "A", "T">> :> StrValue)
    @@ (<<"_", "S", "T", "Y", "L", "E", "S">> :> DictValue)

getattr_logging(attr, default) ==
    IF attr \in DOMAIN logging_attrs THEN logging_attrs[attr] ELSE default

\* logging._checkLevel, as used by setLevel: an int is accepted, a str must name
\* a level (the str attributes reachable here do not), anything else is refused.
checkLevel(value) ==
    CASE value.t = "int" -> "ok"
      [] value.t = "str" -> "ValueError"
      [] OTHER -> "TypeError"

(***************************************************************************)
(* os.environ and os.getenv.  A variable is either unset or set to a       *)
(* string.                                                                 *)
(***************************************************************************)
Unset == [set |-> FALSE, v |-> <<>>]
SetTo(value) == [set |-> TRUE, v |-> value]

getenv(env, key, default) == IF env[key].set THEN env[key].v ELSE default

DefaultLevelName == <<"D", "E", "B", "U", "G">>
DefaultLogFile == <<"combined.log">>

\* The values the environment gives LOG_LEVEL: level names in various cases
\* (DEBUG is what an unset LOG_LEVEL gives), an unknown word, and the name of
\* a str attribute of the logging module.
LevelValues ==
    { <<"i", "n", "f", "o">>,
      <<"W", "A", "R", "N", "I", "N", "G">>,
      <<"E", "r", "r", "o", "r">>,
      <<"c", "r", "i", "t", "i", "c", "a", "l">>,
      <<"v", "e", "r", "b", "o", "s", "e">>,
      <<"b", "a", "s", "i", "c", "_", "f", "o", "r", "m", "a", "t">> }

\* The values the environment gives LOG_FILE: a file under two missing
\* directories, a path below the default log file, and the empty string (which
\* names the working directory).
FileValues ==
    { <<"logs", "app", "out.log">>,
      <<"combined.log", "x.log">>,
      <<>> }

Environments ==
    [LOG_LEVEL : {Unset} \cup {SetTo(v) : v \in LevelValues},
     LOG_FILE : {Unset} \cup {SetTo(v) : v \in FileValues}]

(***************************************************************************)
(* The file system: os.path.dirname, os.makedirs(exist_ok=True) and the    *)
(* open(filename, "a") that logging.FileHandler performs.  The working     *)
(* directory is the empty path.                                            *)
(***************************************************************************)
dirname(path) == IF Len(path) = 0 THEN <<>> ELSE SubSeq(path, 1, Len(path) - 1)

Prefixes(path) == {SubSeq(path, 1, k) : k \in 0..Len(path)}

makedirs(f, directory) ==
    IF \E p \in Prefixes(directory) : p \in f.files
    THEN [fs |-> f, exc |-> "FileExistsError"]
    ELSE [fs |-> [f EXCEPT !.dirs = @ \cup Prefixes(directory)], exc |-> "none"]

open_append(f, path) ==
    CASE path \in f.dirs -> [fs |-> f, exc |-> "IsADirectoryError"]
      [] \E p \in Prefixes(dirname(path)) : p \in f.files ->
            [fs |-> f, exc |-> "NotADirectoryError"]
      [] dirname(path) \notin f.dirs -> [fs |-> f, exc |-> "FileNotFoundError"]
      [] OTHER -> [fs |-> [f EXCEPT !.files = @ \cup {path}], exc |-> "none"]

\* Variant: the failure of makedirs is swallowed instead of raised.
try_create_dir_swallow(f, path) ==
    LET directory == dirname(path)
    IN  IF directory # <<>>
        THEN [fs |-> makedirs(f, directory).fs, exc |-> "none"]
        ELSE [fs |-> f, exc |-> "none"]

\* Variant: the directory is never created.
try_create_dir_skipped(f, path) == [fs |-> f, exc |-> "none"]

\* try_create_dir: nothing to do for a bare file name; any failure of makedirs
\* becomes SystemExit.
try_create_dir(f, path) ==
    LET directory == dirname(path)
    IN  IF directory # <<>>
        THEN LET made == makedirs(f, directory)
             IN  IF made.exc # "none"
                 THEN [fs |-> made.fs, exc |-> "SystemExit"]
                 ELSE made
        ELSE [fs |-> f, exc |-> "none"]

(***************************************************************************)
(* logging's registry of loggers.  The root logger always exists, is named *)
(* "root" and starts at WARNING without handlers; getLogger returns the    *)
(* registered logger of a name or registers a new one (level NOTSET).      *)
(***************************************************************************)
RootName == <<"root">>
ModuleName == <<"pylo", "logger">>

NewLogger(name, id) == [id |-> id, name |-> name, level |-> NOTSET, handlers |-> <<>>]

logging_getLogger(dict, name, nid) ==
    IF name \in DOMAIN dict
    THEN [dict |-> dict, logger |-> dict[name], nextId |-> nid]
    ELSE [dict |-> (name :> NewLogger(name, nid)) @@ dict,
          logger |-> NewLogger(name, nid),
          nextId |-> nid + 1]

(***************************************************************************)
(* get_logger, lines 75-83: the name of the logger.  A call stack is       *)
(* [frame, f_back, caller_file]: whether inspect.currentframe() gives a    *)
(* frame, whether that frame has a caller, and the caller's source file.   *)
(***************************************************************************)
basename(path) == IF Len(path) = 0 THEN <<>> ELSE path[Len(path)]

\* Variant: the file of get_logger's own frame is taken, not the caller's.
resolve_name_own_frame(name, stack) ==
    IF name = <<>>
    THEN IF stack.frame THEN <<"logger", "py">> ELSE ModuleName
    ELSE name

resolve_name(name, stack) ==
    IF name = <<>>
    THEN IF stack.frame /\ stack.f_back
         THEN basename(stack.caller_file)
         ELSE ModuleName
    ELSE name

(***************************************************************************)
(* get_logger, lines 91-119: the steps of the first configuration.         *)
(***************************************************************************)
\* Variant: the test of line 91 dropped, so every call configures.
needs_setup_always(logger) == TRUE

\* Variant: the other policy, configure whenever the file sink is missing.
needs_setup_no_file(logger) ==
    ~\E i \in DOMAIN logger.handlers : logger.handlers[i].kind = "file"

\* Line 91.
needs_setup(logger) == Len(logger.handlers) = 0

\* Lines 93-95.
resolve_level(env) ==
    getattr_logging(upper(getenv(env, "LOG_LEVEL", DefaultLevelName)), IntValue(DEBUG))

\* Variant: line 96 left out, the logger keeps the level it had.
setLevel_skipped(logger, value) ==
    IF checkLevel(value) = "ok"
    THEN [logger |-> logger, exc |-> "none"]
    ELSE [logger |-> logger, exc |-> checkLevel(value)]

\* Line 96: Logger.setLevel.
setLevel(logger, value) ==
    IF checkLevel(value) = "ok"
    THEN [logger |-> [logger EXCEPT !.level = value.v], exc |-> "none"]
    ELSE [logger |-> logger, exc |-> checkLevel(value)]

\* Line 100.
resolve_file(env) == getenv(env, "LOG_FILE", DefaultLogFile)

\* Logger.addHandler: a handler already in the list is not added again.
addHandler(logger, handler) ==
    IF \E i \in DOMAIN logger.handlers : logger.handlers[i] = handler
    THEN logger
    ELSE [logger EXCEPT !.handlers = Append(@, handler)]

\* Variant: one module-level StreamHandler shared by every logger.
console_handler_shared(level, id) ==
    [id |-> 0, kind |-> "console", level |-> level, path |-> <<"<stderr>">>]

\* Lines 105-107.
console_handler(level, id) ==
    [id |-> id, kind |-> "console", level |-> level, path |-> <<"<stderr>">>]

\* Variant: line 115 left out, the file handler keeps the level NOTSET.
file_handler_unleveled(level, path, id) ==
    [id |-> id, kind |-> "file", level |-> NOTSET, path |-> path]

\* Lines 114-118, once the file is open.
file_handler(level, path, id) ==
    [id |-> id, kind |-> "file", level |-> level, path |-> path]

\* Lines 91-119 run without interruption: the logger, the file system and the
\* identity counter they leave, and the exception that ended them, if any.
setup(logger, env, f, nid) ==
    LET lvl == resolve_level(env)
        s1 == setLevel(logger, lvl)
        path == resolve_file(env)
        made == try_create_dir(f, path)
        l2 == addHandler(s1.logger, console_handler(lvl.v, nid))
        opened == open_append(made.fs, path)
        l3 == addHandler(l2, file_handler(lvl.v, path, nid + 1))
    IN  CASE s1.exc # "none" ->
                [logger |-> s1.logger, fs |-> f, nextId |-> nid, exc |-> s1.exc]
          [] made.exc # "none" ->
                [logger |-> s1.logger, fs |-> made.fs, nextId |-> nid, exc |-> made.exc]
          [] opened.exc # "none" ->
                [logger |-> l2, fs |-> opened.fs, nextId |-> nid + 1, exc |-> opened.exc]
          [] OTHER ->
                [logger |-> l3, fs |-> opened.fs, nextId |-> nid + 2, exc |-> "none"]

(***************************************************************************)
(* Formatting.  A format string is the sequence of its literal pieces and  *)
(* %(...)s fields; a formatted line is that sequence with every field      *)
(* replaced by the record's value.                                         *)
(***************************************************************************)
max_message_length == 100

BASE_FORMAT ==
    <<"%(levelname)s", " (", "%(asctime)s", ") [name: ", "%(name)s", " func: ",
      "%(funcName)s", "] ", "%(message)s">>

grey == "\\x1b[38;21m"
blue == "\\x1b[34;01m"
yellow == "\\x1b[33;01m"
red == "\\x1b[31;01m"
bold_red == "\\x1b[31;1m"
reset == "\\x1b[0m"

\* The characters of each escape code, and the colour a terminal shows for
\* it: the code's numeric parameters (ESC [ p1 ; p2 m), read as numbers, so
\* that "01" and "1" are the same parameter.
ansi_chars ==
    (grey :> <<"\\x1b", "[", "3", "8", ";", "2", "1", "m">>)
    @@ (blue :> <<"\\x1b", "[", "3", "4", ";", "0", "1", "m">>)
    @@ (yellow :> <<"\\x1b", "[", "3", "3", ";", "0", "1", "m">>)
    @@ (red :> <<"\\x1b", "[", "3", "1", ";", "0", "1", "m">>)
    @@ (bold_red :> <<"\\x1b", "[", "3", "1", ";", "1", "m">>)
    @@ (reset :> <<"\\x1b", "[", "0", "m">>)

Digits == <<"0", "1", "2", "3", "4", "5", "6", "7", "8", "9">>

digit_value(c) == (CHOOSE i \in DOMAIN Digits : Digits[i] = c) - 1

RECURSIVE sgr_parse(_, _, _)
sgr_parse(chars, current, params) ==
    IF chars = <<>> THEN params
    ELSE CASE Head(chars) = ";" -> sgr_parse(Tail(chars), 0, Append(params, current))
           [] Head(chars) = "m" -> Append(params, current)
           [] \E i \in DOMAIN Digits : Digits[i] = Head(chars) ->
                 sgr_parse(Tail(chars), current * 10 + digit_value(Head(chars)), params)
           [] OTHER -> sgr_parse(Tail(chars), current, params)

sgr_params(code) == sgr_parse(ansi_chars[code], 0, <<>>)

FORMATS ==
    (DEBUG :> (<<grey>> \o BASE_FORMAT \o <<reset>>))
    @@ (INFO :> (<<blue>> \o BASE_FORMAT \o <<reset>>))
    @@ (WARNING :> (<<yellow>> \o BASE_FORMAT \o <<reset>>))
    @@ (ERROR :> (<<red>> \o BASE_FORMAT \o <<reset>>))
    @@ (CRITICAL :> (<<bold_red>> \o BASE_FORMAT \o <<reset>>))

\* str % args for the %s conversions of a message: every "%s" of msg is replaced
\* by the characters of the next argument.
RECURSIVE percent_format(_, _)
percent_format(msg, args) ==
    IF msg = <<>> THEN <<>>
    ELSE IF Head(msg) = "%s" /\ args # <<>>
         THEN Head(args) \o percent_format(Tail(msg), Tail(args))
         ELSE <<Head(msg)>> \o percent_format(Tail(msg), args)

\* LogRecord.getMessage: msg, merged with args when there are any.
getMessage(record) ==
    IF record.args # <<>> THEN percent_format(record.msg, record.args) ELSE record.msg

\* logging.Formatter(fmt, datefmt).format(record).
Formatter_format(fmt, record) ==
    [i \in DOMAIN fmt |->
        CASE fmt[i] = "%(levelname)s" -> levelname(record.levelno)
          [] fmt[i] = "%(asctime)s" -> "%Y-%m-%d %H:%M:%S"
          [] fmt[i] = "%(name)s" -> record.name
          [] fmt[i] = "%(funcName)s" -> record.funcName
          [] fmt[i] = "%(message)s" -> getMessage(record)
          [] OTHER -> fmt[i]]

\* Variant: line 52 without copy.copy, the truncation is applied to the record
\* that the handlers share.
ASCIIFormatter_format_inplace(record) ==
    LET original_message == getMessage(record)
        record_copy ==
            IF Len(original_message) > max_message_length
            THEN [record EXCEPT
                    !.msg = SubSeq(original_message, 1, max_message_length)
                            \o <<".", ".", ".">>,
                    !.args = <<>>]
            ELSE record
        log_fmt == IF record_copy.levelno \in DOMAIN FORMATS
                   THEN FORMATS[record_copy.levelno]
                   ELSE BASE_FORMAT
    IN  [line |-> Formatter_format(log_fmt, record_copy), record |-> record_copy]

\* ASCIIFormatter.format, lines 50-67: the line written, and the record as the
\* caller's next handler will see it.
ASCIIFormatter_format(record) ==
    LET original_message == getMessage(record)
        record_copy ==
            IF Len(original_message) > max_message_length
            THEN [record EXCEPT
                    !.msg = SubSeq(original_message, 1, max_message_length)
                            \o <<".", ".", ".">>,
                    !.args = <<>>]
            ELSE record
        log_fmt == IF record_copy.levelno \in DOMAIN FORMATS
                   THEN FORMATS[record_copy.levelno]
                   ELSE BASE_FORMAT
    IN  [line |-> Formatter_format(log_fmt, record_copy), record |-> record]

\* The formatter of the file handler, lines 116-118.
file_format(record) ==
    [line |-> Formatter_format(BASE_FORMAT, record), record |-> record]

handler_format(handler, record) ==
    IF handler.kind = "console" THEN ASCIIFormatter_format(record) ELSE file_format(record)

(***************************************************************************)
(* Dispatch of a record by the logging module: Logger.getEffectiveLevel,   *)
(* Logger.isEnabledFor and Logger.callHandlers over the logger and its     *)
(* ancestors (every logger propagates).                                    *)
(***************************************************************************)
ProperPrefixes(name) == {SubSeq(name, 1, k) : k \in 1..(Len(name) - 1)}

\* The nearest registered ancestor of a name, the root logger failing any.
parent_name(dict, name) ==
    LET ups == {p \in ProperPrefixes(name) : p \in DOMAIN dict}
    IN  IF ups = {} THEN RootName
        ELSE CHOOSE p \in ups : \A q \in ups : Len(q) <= Len(p)

RECURSIVE chain(_, _)
chain(dict, name) ==
    IF name = RootName THEN <<name>>
    ELSE <<name>> \o chain(dict, parent_name(dict, name))

getEffectiveLevel(dict, name) ==
    LET c == chain(dict, name)
        set == {i \in DOMAIN c : dict[c[i]].level # NOTSET}
    IN  IF set = {} THEN NOTSET
        ELSE dict[c[CHOOSE i \in set : \A j \in set : i <= j]].level

isEnabledFor(dict, name, levelno) == levelno >= getEffectiveLevel(dict, name)

\* The handlers callHandlers visits, in order, each with the logger owning it.
RECURSIVE owned_handlers(_, _)
owned_handlers(dict, names) ==
    IF names = <<>> THEN <<>>
    ELSE [i \in DOMAIN dict[Head(names)].handlers |->
             [owner |-> Head(names), handler |-> dict[Head(names)].handlers[i]]]
         \o owned_handlers(dict, Tail(names))

\* Handler.handle for each handler in turn, on the one shared record.
RECURSIVE callHandlers(_, _, _)
callHandlers(hs, record, out) ==
    IF hs = <<>> THEN out
    ELSE LET h == Head(hs).handler
             f == handler_format(h, record)
         IN  IF record.levelno >= h.level
             THEN callHandlers(Tail(hs), f.record,
                     Append(out, [owner |-> Head(hs).owner, id |-> h.id,
                                  kind |-> h.kind, path |-> h.path,
                                  line |-> f.line]))
             ELSE callHandlers(Tail(hs), record, out)

\* Logger.log(levelno, msg, *args) on the logger of a name.
logger_log(dict, name, record) ==
    IF isEnabledFor(dict, name, record.levelno)
    THEN callHandlers(owned_handlers(dict, chain(dict, name)), record, <<>>)
    ELSE <<>>

(***************************************************************************)
(* Inputs of the operations.                                               *)
(***************************************************************************)
\* The name argument of get_logger: omitted (empty), or given.
NameArgs == {<<>>, <<"foo">>, <<"foo", "bar">>}

\* Call stacks: no frame support, a frame without caller, a caller in foo.py.
NoFrame == [frame |-> FALSE, f_back |-> FALSE, caller_file |-> <<>>]
NoCaller == [frame |-> TRUE, f_back |-> FALSE, caller_file |-> <<>>]
CallerFoo == [frame |-> TRUE, f_back |-> TRUE,
              caller_file |-> << <<"app">>, <<"foo", "py">> >>]
Stacks == {NoFrame, NoCaller, CallerFoo}

\* A message of n characters, all positions told apart modulo 10.
Chars(n) == [i \in 1..n |-> ToString(i % 10)]

\* What is logged: msg and args.  A short message, one of exactly the console
\* limit, ones beyond it, and a short template whose argument makes it long.
Messages ==
    { [msg |-> <<"h", "i">>, args |-> <<>>],
      [msg |-> Chars(max_message_length), args |-> <<>>],
      [msg |-> <<"x", "=", "%s">>, args |-> <<Chars(max_message_length)>>] }
    \cup { [msg |-> Chars(max_message_length + k), args |-> <<>>] : k \in 1..MaxExtra }

(***************************************************************************)
(* Initial state: a fresh process.  Only the root logger exists and the    *)
(* working directory exists and is empty.  InitWith(envs) starts from any  *)
(* of the given environments: Init from the one that sets neither          *)
(* variable, InitLog from those that set at most LOG_LEVEL.                *)
(***************************************************************************)
NoEnv == [LOG_LEVEL |-> Unset, LOG_FILE |-> Unset]
NoReturn == [exc |-> "nocall", id |-> -1, name |-> <<>>, stack |-> NoFrame,
             logger_name |-> <<>>, configured |-> FALSE, env |-> NoEnv]
NoLog == [logged |-> FALSE, name |-> <<>>, levelno |-> NOTSET, msg |-> <<>>,
          args |-> <<>>, out |-> <<>>]

ThreadIds == {1, 2}
Idle == [pc |-> "idle", name |-> <<>>, level |-> NOTSET, path |-> <<>>]

InitWith(envs) ==
    /\ environ \in envs
    /\ loggerDict = (RootName :> [id |-> 0, name |-> RootName, level |-> WARNING,
                                  handlers |-> <<>>])
    /\ fs = [dirs |-> {<<>>}, files |-> {}]
    /\ nextId = 1
    /\ ret = NoReturn
    /\ returned = <<>>
    /\ raised = {}
    /\ ncalls = 0
    /\ nenv = 0
    /\ lastLog = NoLog
    /\ threads = [t \in ThreadIds |-> Idle]

Init == InitWith({NoEnv})

\* For logging: LOG_LEVEL unset or one of the five level names, in various cases.
LogEnvironments ==
    [LOG_LEVEL : {Unset, SetTo(<<"D", "E", "B", "U", "G">>), SetTo(<<"i", "n", "f", "o">>),
                  SetTo(<<"W", "A", "R", "N", "I", "N", "G">>),
                  SetTo(<<"E", "r", "r", "o", "r">>),
                  SetTo(<<"c", "r", "i", "t", "i", "c", "a", "l">>)},
     LOG_FILE : {Unset}]

InitLog == InitWith(LogEnvironments)

\* For threads: every value of LOG_FILE, LOG_LEVEL unset or a level name.
ThreadEnvironments ==
    {e \in Environments : e.LOG_LEVEL \in {Unset, SetTo(<<"i", "n", "f", "o">>)}}

InitThreads == InitWith(ThreadEnvironments)

(***************************************************************************)
(* get_logger(name), called with the given stack, run from entry to return *)
(* or raise (lines 70-121).                                                *)
(***************************************************************************)
get_logger(name, stack) ==
    /\ ncalls < MaxCalls
    /\ LET nm == resolve_name(name, stack)
           got == logging_getLogger(loggerDict, nm, nextId)
           first == needs_setup(got.logger)
           done == IF first
                   THEN setup(got.logger, environ, fs, got.nextId)
                   ELSE [logger |-> got.logger, fs |-> fs, nextId |-> got.nextId,
                         exc |-> "none"]
       IN  /\ loggerDict' = [got.dict EXCEPT ![nm] = done.logger]
           /\ fs' = done.fs
           /\ nextId' = done.nextId
           /\ ret' = [exc |-> done.exc,
                      id |-> IF done.exc = "none" THEN done.logger.id ELSE -1,
                      name |-> name, stack |-> stack, logger_name |-> nm,
                      configured |-> first, env |-> environ]
           /\ returned' = IF done.exc = "none"
                          THEN Append(returned, [name |-> nm, id |-> done.logger.id])
                          ELSE returned
           /\ raised' = IF done.exc = "none" THEN raised ELSE raised \cup {nm}
    /\ ncalls' = ncalls + 1
    /\ UNCHANGED <<environ, nenv, lastLog, threads>>

(***************************************************************************)
(* The caller changes the environment between calls: any of LOG_LEVEL and  *)
(* LOG_FILE is set (os.environ[key] = value) or deleted.                   *)
(***************************************************************************)
SetEnv(env) ==
    /\ nenv < MaxEnvOps
    /\ env # environ
    /\ environ' = env
    /\ nenv' = nenv + 1
    /\ UNCHANGED <<loggerDict, fs, nextId, ret, returned, raised, ncalls, lastLog,
                   threads>>

(***************************************************************************)
(* The caller logs through a handle that get_logger returned:              *)
(* logger.log(levelno, msg, *args).                                        *)
(***************************************************************************)
Log(name, levelno, m) ==
    /\ \E i \in DOMAIN returned : returned[i].name = name
    /\ LET record == [name |-> name, levelno |-> levelno, msg |-> m.msg,
                      args |-> m.args, funcName |-> "<module>"]
       IN  lastLog' = [logged |-> TRUE, name |-> name, levelno |-> levelno,
                       msg |-> m.msg, args |-> m.args,
                       out |-> logger_log(loggerDict, name, record)]
    /\ UNCHANGED <<environ, loggerDict, fs, nextId, ret, returned, raised, ncalls,
                   nenv, threads>>

\* The calls made: the name omitted under each stack, and each name given.
Calls ==
    {[name |-> <<>>, stack |-> s] : s \in Stacks}
    \cup {[name |-> n, stack |-> CallerFoo] : n \in NameArgs \ {<<>>}}

Next ==
    \/ \E c \in Calls : get_logger(c.name, c.stack)
    \/ \E env \in Environments : SetEnv(env)

Spec == Init /\ [][Next]_vars

NextLog ==
    \/ \E c \in Calls : get_logger(c.name, c.stack)
    \/ \E name \in DOMAIN loggerDict, levelno \in Severities, m \in Messages :
          Log(name, levelno, m)

SpecLog == InitLog /\ [][NextLog]_vars

(***************************************************************************)
(* get_logger called from several threads.  The module takes no lock, so   *)
(* a call is a sequence of steps, each atomic under the logging module's   *)
(* own lock, that other threads' steps may interleave with:                *)
(*   idle -> check -> level -> mkdir -> console -> file -> return -> idle  *)
(* A thread keeps the logger's name, LOG_LEVEL and LOG_FILE as locals.     *)
(***************************************************************************)
Raise(t, exc) ==
    /\ threads' = [threads EXCEPT ![t] = Idle]
    /\ ret' = [exc |-> exc, id |-> -1, name |-> threads[t].name, stack |-> CallerFoo,
               logger_name |-> threads[t].name, configured |-> TRUE, env |-> environ]
    /\ raised' = raised \cup {threads[t].name}

\* Lines 75-87: the name is resolved and the logger fetched or registered.
T_GetLogger(t, name, stack) ==
    /\ threads[t].pc = "idle"
    /\ ncalls < MaxCalls
    /\ LET nm == resolve_name(name, stack)
           got == logging_getLogger(loggerDict, nm, nextId)
       IN  /\ loggerDict' = got.dict
           /\ nextId' = got.nextId
           /\ threads' = [threads EXCEPT ![t] = [Idle EXCEPT !.pc = "check", !.name = nm]]
    /\ ncalls' = ncalls + 1
    /\ UNCHANGED <<environ, fs, ret, returned, raised, nenv, lastLog>>

\* Line 91: the test for handlers.
T_Check(t) ==
    /\ threads[t].pc = "check"
    /\ threads' = [threads EXCEPT ![t].pc =
                      IF needs_setup(loggerDict[threads[t].name]) THEN "level"
                      ELSE "return"]
    /\ UNCHANGED <<environ, loggerDict, fs, nextId, ret, returned, raised, ncalls,
                   nenv, lastLog>>

\* Lines 93-96.
T_SetLevel(t) ==
    /\ threads[t].pc = "level"
    /\ LET lvl == resolve_level(environ)
           s1 == setLevel(loggerDict[threads[t].name], lvl)
       IN  IF s1.exc # "none"
           THEN /\ Raise(t, s1.exc)
                /\ UNCHANGED loggerDict
           ELSE /\ loggerDict' = [loggerDict EXCEPT ![threads[t].name] = s1.logger]
                /\ threads' = [threads EXCEPT ![t].pc = "mkdir", ![t].level = lvl.v]
                /\ UNCHANGED <<ret, raised>>
    /\ UNCHANGED <<environ, fs, nextId, returned, ncalls, nenv, lastLog>>

\* Lines 100-101.
T_MakeDir(t) ==
    /\ threads[t].pc = "mkdir"
    /\ LET path == resolve_file(environ)
           made == try_create_dir(fs, path)
       IN  /\ fs' = made.fs
           /\ IF made.exc # "none"
              THEN Raise(t, made.exc)
              ELSE /\ threads' = [threads EXCEPT ![t].pc = "console", ![t].path = path]
                   /\ UNCHANGED <<ret, raised>>
    /\ UNCHANGED <<environ, loggerDict, nextId, returned, ncalls, nenv, lastLog>>

\* Lines 105-108.
T_AddConsole(t) ==
    /\ threads[t].pc = "console"
    /\ loggerDict' = [loggerDict EXCEPT ![threads[t].name] =
                         addHandler(@, console_handler(threads[t].level, nextId))]
    /\ nextId' = nextId + 1
    /\ threads' = [threads EXCEPT ![t].pc = "file"]
    /\ UNCHANGED <<environ, fs, ret, returned, raised, ncalls, nenv, lastLog>>

\* Lines 114-119.
T_AddFile(t) ==
    /\ threads[t].pc = "file"
    /\ LET opened == open_append(fs, threads[t].path)
       IN  /\ fs' = opened.fs
           /\ IF opened.exc # "none"
              THEN /\ Raise(t, opened.exc)
                   /\ UNCHANGED loggerDict
              ELSE /\ loggerDict' = [loggerDict EXCEPT ![threads[t].name] =
                          addHandler(@, file_handler(threads[t].level,
                                                     threads[t].path, nextId))]
                   /\ threads' = [threads EXCEPT ![t].pc = "return"]
                   /\ UNCHANGED <<ret, raised>>
    /\ nextId' = nextId + 1
    /\ UNCHANGED <<environ, returned, ncalls, nenv, lastLog>>

\* Line 121.
T_Return(t) ==
    /\ threads[t].pc = "return"
    /\ ret' = [exc |-> "none", id |-> loggerDict[threads[t].name].id,
               name |-> threads[t].name, stack |-> CallerFoo,
               logger_name |-> threads[t].name, configured |-> FALSE, env |-> environ]
    /\ returned' = Append(returned, [name |-> threads[t].name,
                                     id |-> loggerDict[threads[t].name].id])
    /\ threads' = [threads EXCEPT ![t] = Idle]
    /\ UNCHANGED <<environ, loggerDict, fs, nextId, raised, ncalls, nenv, lastLog>>

NextThreads ==
    \/ \E t \in ThreadIds, c \in Calls : T_GetLogger(t, c.name, c.stack)
    \/ \E t \in ThreadIds : T_Check(t)
    \/ \E t \in ThreadIds : T_SetLevel(t)
    \/ \E t \in ThreadIds : T_MakeDir(t)
    \/ \E t \in ThreadIds : T_AddConsole(t)
    \/ \E t \in ThreadIds : T_AddFile(t)
    \/ \E t \in ThreadIds : T_Return(t)

SpecThreads == InitThreads /\ [][NextThreads]_vars

(***************************************************************************)
(* Properties.                                                             *)
(***************************************************************************)
Sinks(name, kind) ==
    {i \in DOMAIN loggerDict[name].handlers : loggerDict[name].handlers[i].kind = kind}

\* The identities that calls for a name returned, and how many calls returned.
ReturnedIds(name) == {returned[i].id : i \in {j \in DOMAIN returned : returned[j].name = name}}
ReturnCount(name) == Cardinality({i \in DOMAIN returned : returned[i].name = name})

AllIdle == \A t \in ThreadIds : threads[t].pc = "idle"

\* C1: for every name whose get_logger calls all returned (k >= 1 of them, one
\* after the other), the logger of that name has exactly one console sink and
\* exactly one file sink, and all k calls returned the same logger identity.
C1_IdempotentSingleton ==
    \A n \in DOMAIN loggerDict :
        (ReturnCount(n) >= 1 /\ n \notin raised) =>
            /\ Cardinality(Sinks(n, "console")) = 1
            /\ Cardinality(Sinks(n, "file")) = 1
            /\ ReturnedIds(n) = {loggerDict[n].id}

\* C1 witness: some name was returned by two calls, none of its calls raised.
C1_Witness ==
    \E n \in DOMAIN loggerDict :
        /\ ReturnCount(n) >= 2
        /\ n \notin raised
        /\ Len(loggerDict[n].handlers) = 2

\* C2: when threads call get_logger concurrently, no interleaving of their
\* steps attaches a second console sink or a second file sink to a logger, and
\* once all calls for a name have returned its logger has exactly one of each.
C2_ConcurrentFirstCalls ==
    \A n \in DOMAIN loggerDict :
        /\ Cardinality(Sinks(n, "console")) <= 1
        /\ Cardinality(Sinks(n, "file")) <= 1
        /\ (AllIdle /\ ReturnCount(n) >= 1 /\ n \notin raised) =>
               /\ Cardinality(Sinks(n, "console")) = 1
               /\ Cardinality(Sinks(n, "file")) = 1

\* C3: the loggers of two distinct names are different objects, calls for
\* distinct names returned different identities, and no sink of one logger is
\* in the sink list of the other.
C3_Isolation ==
    /\ \A a, b \in DOMAIN loggerDict :
          a # b =>
             /\ loggerDict[a].id # loggerDict[b].id
             /\ \A i \in DOMAIN loggerDict[a].handlers, j \in DOMAIN loggerDict[b].handlers :
                   loggerDict[a].handlers[i].id # loggerDict[b].handlers[j].id
    /\ \A i, j \in DOMAIN returned :
          returned[i].name # returned[j].name => returned[i].id # returned[j].id

\* C3 witness: two distinct names were returned and both loggers carry sinks.
C3_Witness ==
    \E i, j \in DOMAIN returned :
        /\ returned[i].name # returned[j].name
        /\ Len(loggerDict[returned[i].name].handlers) = 2
        /\ Len(loggerDict[returned[j].name].handlers) = 2

\* What the sinks of the logger that was logged through wrote for the latest
\* record, by kind of sink.
OwnOutput(kind) ==
    {i \in DOMAIN lastLog.out :
        lastLog.out[i].owner = lastLog.name /\ lastLog.out[i].kind = kind}

\* The severity threshold that each level name stands for.
C4_Threshold(value) ==
    CASE value = <<"D", "E", "B", "U", "G">> -> 10
      [] value = <<"i", "n", "f", "o">> -> 20
      [] value = <<"W", "A", "R", "N", "I", "N", "G">> -> 30
      [] value = <<"E", "r", "r", "o", "r">> -> 40
      [] value = <<"c", "r", "i", "t", "i", "c", "a", "l">> -> 50

\* C4: with LOG_LEVEL set to the level name L, a record logged through a
\* handle with a severity below L is written by neither the console sink nor
\* the file sink of that handle, and a record with a severity at or above L is
\* written once by each of them.
C4_LevelFiltering ==
    (lastLog.logged /\ environ.LOG_LEVEL.set) =>
        IF lastLog.levelno < C4_Threshold(environ.LOG_LEVEL.v)
        THEN OwnOutput("console") = {} /\ OwnOutput("file") = {}
        ELSE Cardinality(OwnOutput("console")) = 1 /\ Cardinality(OwnOutput("file")) = 1

\* C4 witness: LOG_LEVEL is WARNING, a WARNING record was logged and both
\* sinks of the handle wrote it.
C4_Witness ==
    /\ lastLog.logged
    /\ environ.LOG_LEVEL = SetTo(<<"W", "A", "R", "N", "I", "N", "G">>)
    /\ lastLog.levelno = 30
    /\ OwnOutput("console") # {}
    /\ OwnOutput("file") # {}

\* The message as rendered from msg and args, and the message part of a line.
RenderedMessage == getMessage([msg |-> lastLog.msg, args |-> lastLog.args])

MessagePart(entry) ==
    IF entry.kind = "console"
    THEN entry.line[Len(entry.line) - 1]
    ELSE entry.line[Len(entry.line)]

\* C5: a message rendered to more than 100 characters appears on the console
\* as its first 100 characters followed by "...", and in the file, written
\* after the console line from the same record, in full; a message of at most
\* 100 characters appears unchanged on both.
C5_Truncation ==
    lastLog.logged =>
        \A i \in DOMAIN lastLog.out :
            MessagePart(lastLog.out[i]) =
                IF lastLog.out[i].kind = "console" /\ Len(RenderedMessage) > 100
                THEN SubSeq(RenderedMessage, 1, 100) \o <<".", ".", ".">>
                ELSE RenderedMessage

\* C5 witness: a message longer than 100 characters was written by a console
\* sink and then by the file sink of the same logger.
C5_Witness ==
    /\ lastLog.logged
    /\ Len(RenderedMessage) > 100
    /\ \E i, j \in DOMAIN lastLog.out :
          /\ i < j
          /\ lastLog.out[i].owner = lastLog.out[j].owner
          /\ lastLog.out[i].kind = "console"
          /\ lastLog.out[j].kind = "file"
          /\ Len(MessagePart(lastLog.out[i])) = 103
          /\ Len(MessagePart(lastLog.out[j])) = Len(RenderedMessage)

\* The logger that the latest get_logger call was for.
RetLogger == loggerDict[ret.logger_name]

\* The LOG_LEVEL values used here that are, in some case, names of a level.
C6_LevelNames ==
    { <<"i", "n", "f", "o">>, <<"W", "A", "R", "N", "I", "N", "G">>,
      <<"E", "r", "r", "o", "r">>, <<"c", "r", "i", "t", "i", "c", "a", "l">> }

\* C6: when LOG_LEVEL is unset or is not, in any case, the name of one of the
\* five levels, a first configuration raises no error from the level and gives
\* the logger and every sink it attaches the level DEBUG.
C6_UnrecognizedLevelFallsBack ==
    (ret.exc # "nocall" /\ ret.configured
        /\ (~ret.env.LOG_LEVEL.set \/ ret.env.LOG_LEVEL.v \notin C6_LevelNames)) =>
            /\ ret.exc \notin {"ValueError", "TypeError"}
            /\ RetLogger.level = 10
            /\ \A i \in DOMAIN RetLogger.handlers : RetLogger.handlers[i].level = 10

\* LOG_FILE as a call found it, and whether its parent directory cannot be
\* created because the directory or one of its ancestors is a regular file.
FileOf(env) == IF env.LOG_FILE.set THEN env.LOG_FILE.v ELSE <<"combined.log">>

DirBlocked(f, path) ==
    /\ Len(path) > 1
    /\ \E k \in 1..(Len(path) - 1) : SubSeq(path, 1, k) \in f.files

\* C7: a first configuration that gets as far as creating the parent
\* directory of LOG_FILE and fails there returns no handle: the call ends in
\* SystemExit and has attached no sink; and whenever a call has just ended in
\* SystemExit the logger it was for has no sink.
C7_DirFailureStep ==
    (/\ ncalls' = ncalls + 1
     /\ ret'.configured
     /\ ret'.exc \notin {"ValueError", "TypeError"}
     /\ DirBlocked(fs, FileOf(environ)))
    => /\ ret'.exc = "SystemExit"
       /\ ret'.id = -1
       /\ returned' = returned
       /\ Len(loggerDict'[ret'.logger_name].handlers) = 0

C7_DirFailureIsFatal ==
    /\ [][C7_DirFailureStep]_vars
    /\ [](ret.exc = "SystemExit" => (ret.id = -1 /\ Len(RetLogger.handlers) = 0))

\* C7 witness: a call has just ended in SystemExit.
C7_Witness ==
    /\ ret.exc = "SystemExit"
    /\ ret.configured
    /\ DirBlocked(fs, FileOf(ret.env))

\* C8: opening the log file never finds its directory missing, and every file
\* sink's file exists with its parent directory and all ancestors of it.
C8_DirectoryBeforeFile ==
    /\ ret.exc # "FileNotFoundError"
    /\ \A n \in DOMAIN loggerDict :
          \A i \in Sinks(n, "file") :
              LET path == loggerDict[n].handlers[i].path
              IN  /\ path \in fs.files
                  /\ \A k \in 0..(Len(path) - 1) : SubSeq(path, 1, k) \in fs.dirs

\* C8 witness: a file sink writes to a file two directories down, neither of
\* which existed when the process started.
C8_Witness ==
    \E n \in DOMAIN loggerDict :
        \E i \in Sinks(n, "file") :
            /\ loggerDict[n].handlers[i].path = <<"logs", "app", "out.log">>
            /\ <<"logs", "app", "out.log">> \in fs.files

\* C9: once the logger of a name has a sink, no step changes its level, its
\* sinks or their levels and paths; a later get_logger call for the name
\* returns that logger, raises nothing and leaves the file system alone,
\* whatever LOG_LEVEL and LOG_FILE are by then.
C9_Step ==
    \A n \in DOMAIN loggerDict :
        Len(loggerDict[n].handlers) > 0 =>
            /\ n \in DOMAIN loggerDict'
            /\ loggerDict'[n] = loggerDict[n]
            /\ (ncalls' = ncalls + 1 /\ ret'.logger_name = n) =>
                   /\ fs' = fs
                   /\ ret'.exc = "none"
                   /\ ret'.id = loggerDict[n].id

C9_NoReconfiguration == [][C9_Step]_vars

\* C9 witness: a call for a configured name has returned under an environment
\* whose LOG_LEVEL and LOG_FILE both differ from what the logger was
\* configured with.
C9_Witness ==
    /\ ret.exc = "none"
    /\ ~ret.configured
    /\ nenv >= 1
    /\ Len(RetLogger.handlers) = 2
    /\ ret.env.LOG_LEVEL = SetTo(<<"W", "A", "R", "N", "I", "N", "G">>)
    /\ RetLogger.level = 10
    /\ RetLogger.handlers[2].path # FileOf(ret.env)

\* C10: get_logger returns the logger named exactly by a non-empty name
\* argument; with the name omitted, the logger named by the base filename of
\* the caller's source file, or by the module's own name (pylo.logger) when no
\* caller frame is available; whatever a call raises, the logger of that name
\* has been registered by then.
C10_ExpectedName ==
    IF ret.name # <<>> THEN ret.name
    ELSE IF ret.stack.frame /\ ret.stack.f_back
         THEN ret.stack.caller_file[Len(ret.stack.caller_file)]
         ELSE <<"pylo", "logger">>

C10_NameResolution ==
    ret.exc # "nocall" =>
        /\ C10_ExpectedName \in DOMAIN loggerDict
        /\ loggerDict[C10_ExpectedName].name = C10_ExpectedName
        /\ ret.exc = "none" => ret.id = loggerDict[C10_ExpectedName].id
        /\ \A n \in DOMAIN loggerDict :
              loggerDict[n].id = loggerDict[C10_ExpectedName].id => n = C10_ExpectedName

\* C10 witness: a call without name from foo.py returned the logger foo.py.
C10_Witness ==
    /\ ret.exc = "none"
    /\ ret.name = <<>>
    /\ ret.stack.f_back
    /\ ret.id = loggerDict[<<"foo", "py">>].id

\* The sinks that the logger of a name has before a step (none when the name
\* is not registered yet).
HandlersBefore(name) ==
    IF name \in DOMAIN loggerDict THEN loggerDict[name].handlers ELSE <<>>

\* C11: a get_logger call configures exactly when the logger of the name has
\* no sink at the moment of the call: then a call that returns has set the
\* level, prepared the directory and attached one console and one file sink;
\* with at least one sink present, however it came to be there, the call
\* attaches nothing, leaves the level and returns the logger.
C11_Step ==
    (ncalls' = ncalls + 1) =>
        LET n == ret'.logger_name
        IN  IF Len(HandlersBefore(n)) = 0
            THEN ret'.exc = "none" =>
                    /\ Len(loggerDict'[n].handlers) = 2
                    /\ loggerDict'[n].handlers[1].kind = "console"
                    /\ loggerDict'[n].handlers[2].kind = "file"
                    /\ loggerDict'[n].level \in {10, 20, 30, 40, 50}
                    /\ FileOf(environ) \in fs'.files
                    /\ \A k \in 0..(Len(FileOf(environ)) - 1) :
                          SubSeq(FileOf(environ), 1, k) \in fs'.dirs
            ELSE /\ loggerDict'[n] = loggerDict[n]
                 /\ fs' = fs
                 /\ ret'.exc = "none"
                 /\ ret'.id = loggerDict[n].id

C11_SkipIfAnySink == [][C11_Step]_vars

\* C11 witness: a call returned a logger that had only a console sink (left by
\* a call that failed to open the log file) and attached nothing to it.
C11_Witness ==
    /\ ret.exc = "none"
    /\ ~ret.configured
    /\ Len(RetLogger.handlers) = 1
    /\ RetLogger.handlers[1].kind = "console"

\* The level that each LOG_LEVEL of the environment resolves to: DEBUG when
\* unset or unknown.
C12_Level(env) ==
    IF ~env.LOG_LEVEL.set THEN 10
    ELSE CASE env.LOG_LEVEL.v = <<"i", "n", "f", "o">> -> 20
           [] env.LOG_LEVEL.v = <<"W", "A", "R", "N", "I", "N", "G">> -> 30
           [] env.LOG_LEVEL.v = <<"E", "r", "r", "o", "r">> -> 40
           [] env.LOG_LEVEL.v = <<"c", "r", "i", "t", "i", "c", "a", "l">> -> 50
           [] OTHER -> 10

\* C12: a call that configures a name and returns leaves the logger, its
\* console sink and its file sink at the one level that LOG_LEVEL resolves to
\* at that moment, and the file sink on the LOG_FILE of that moment; and at all
\* times every sink of a logger has the logger's level.
C12_Step ==
    (ncalls' = ncalls + 1 /\ ret'.configured /\ ret'.exc = "none") =>
        LET lg == loggerDict'[ret'.logger_name]
        IN  /\ lg.level = C12_Level(environ)
            /\ \A i \in DOMAIN lg.handlers : lg.handlers[i].level = C12_Level(environ)
            /\ \E i \in DOMAIN lg.handlers :
                  lg.handlers[i].kind = "file" /\ lg.handlers[i].path = FileOf(environ)
            /\ \A i \in DOMAIN lg.handlers :
                  lg.handlers[i].kind = "file" => lg.handlers[i].path = FileOf(environ)

C12_LevelsAgree ==
    \A n \in DOMAIN loggerDict :
        \A i \in DOMAIN loggerDict[n].handlers :
            loggerDict[n].handlers[i].level = loggerDict[n].level

C12_ConfiguredFromEnvironment == [][C12_Step]_vars /\ []C12_LevelsAgree

\* C12 witness: two names, configured under different LOG_LEVEL and LOG_FILE,
\* keep different levels and write to different files.
C12_Witness ==
    \E a, b \in DOMAIN loggerDict :
        /\ Len(loggerDict[a].handlers) = 2
        /\ Len(loggerDict[b].handlers) = 2
        /\ loggerDict[a].level = 10
        /\ loggerDict[b].level = 30
        /\ loggerDict[a].handlers[2].level = 10
        /\ loggerDict[b].handlers[2].level = 30
        /\ loggerDict[a].handlers[2].path # loggerDict[b].handlers[2].path

\* The escape code that the claim assigns to each level.
C13_Color(levelno) ==
    CASE levelno = 10 -> "\\x1b[38;21m"
      [] levelno = 20 -> "\\x1b[34;01m"
      [] levelno = 30 -> "\\x1b[33;01m"
      [] levelno = 40 -> "\\x1b[31;01m"
      [] levelno = 50 -> "\\x1b[31;1m"

\* The console line is the colour of the record's level, the nine parts of the
\* base format, and the reset code; the file line is the nine parts alone.
C13_Wrapped ==
    lastLog.logged =>
        \A i \in DOMAIN lastLog.out :
            LET line == lastLog.out[i].line
            IN  IF lastLog.out[i].kind = "console"
                THEN /\ Len(line) = 11
                     /\ line[1] = C13_Color(lastLog.levelno)
                     /\ line[2] = levelname(lastLog.levelno)
                     /\ line[6] = lastLog.name
                     /\ line[11] = "\\x1b[0m"
                ELSE /\ Len(line) = 9
                     /\ line[1] = levelname(lastLog.levelno)
                     /\ line[5] = lastLog.name
                     /\ line[9] = RenderedMessage

\* The colour of a console line is the colour of no other level.
C13_Distinct ==
    lastLog.logged =>
        \A i \in DOMAIN lastLog.out :
            lastLog.out[i].kind = "console" =>
                \A other \in Severities \ {lastLog.levelno} :
                    sgr_params(lastLog.out[i].line[1]) # sgr_params(FORMATS[other][1])

\* C13: the console formatter renders a record as the base format wrapped in
\* the colour of the record's level (grey, blue, yellow, red, bold red for
\* DEBUG, INFO, WARNING, ERROR, CRITICAL) and followed by the reset code, the
\* five colours being pairwise distinct; the file formatter renders the same
\* base format without colour codes.
C13_ColorByLevel == C13_Wrapped /\ C13_Distinct

\* C14: in every state, whatever calls were made and however they ended
\* (also in an error while opening the log file), the logger of each name has
\* either no sink or exactly a console sink and a file sink; so a call after a
\* failed first configuration configures the name in full.
C14_AllOrNothing ==
    \A n \in DOMAIN loggerDict :
        \/ Len(loggerDict[n].handlers) = 0
        \/ /\ Cardinality(Sinks(n, "console")) = 1
           /\ Cardinality(Sinks(n, "file")) = 1

\* What the latest record should have produced: one line from the console
\* sink and one from the file sink of the logger it was logged through.
C15_Expected ==
    /\ Len(lastLog.out) = 2
    /\ \A i \in DOMAIN lastLog.out : lastLog.out[i].owner = lastLog.name
    /\ Cardinality(OwnOutput("console")) = 1
    /\ Cardinality(OwnOutput("file")) = 1

\* C15: whatever names are configured, dotted ones included, a record logged
\* through the handle of a name with a severity at or above the handle's level
\* is written exactly once to the console and exactly once to the log file,
\* and only by the sinks of that name.
C15_WrittenOnce ==
    (lastLog.logged /\ lastLog.levelno >= loggerDict[lastLog.name].level) => C15_Expected

====
